---------------------------- MODULE Spec2Model ----------------------------
(***************************************************************************)
(* The Eventbrite proxy of src/server.js: the in-memory TTL cache, the     *)
(* retrying fetcher fetchWithRetry, the per-event ticket enrichment        *)
(* getEventTicketInfo and the GET /api/events handler.                     *)
(*                                                                         *)
(* Node runs one callback at a time: every action below is the code that   *)
(* runs between two awaits.  Time is in milliseconds, as Date.now().       *)
(*                                                                         *)
(* Program state: now (the clock), env (process.env and the time zone),    *)
(* cache (the Map), req (the requests being served, with the answer of     *)
(* each), cleared (the last answer of POST /api/clear-cache), fr (a call   *)
(* of fetchWithRetry on its own, in SpecRetry).                            *)
(* History, read only by the properties: stored (per year and month, the   *)
(* list last stored, when and by which request, forgotten by a clear),     *)
(* clearedKeys (the keys the last clear removed and no request stored      *)
(* since), clears and sweeps (how many ran), frLog (the attempts of fr:    *)
(* their errors and times).                                                *)
(* call is one call of a function of the program on its own, with its      *)
(* arguments and its result, in SpecCalls.                                 *)
(***************************************************************************)
EXTENDS Integers, Sequences, FiniteSets, TLC

VARIABLES now, env, cache, req, cleared, stored, clearedKeys, clears, sweeps,
          fr, frLog, call

vars == <<now, env, cache, req, cleared, stored, clearedKeys, clears, sweeps,
          fr, frLog, call>>

(***************************************************************************)
(* Bounds of the model                                                     *)
(***************************************************************************)
\* largest retry budget handed to fetchWithRetry in SpecRetry
MaxRetries == 4
\* the clock of SpecRetry stops here
MaxRetryTime == 7500
\* one step of the clock of SpecRetry, and the most an answer or a timer is late
TickStep == 500
\* the clock of Spec stops here
MaxTime == 600000
\* events in the answer of the primary query
MaxCatalog == 5
\* manual cache clears in one behaviour
MaxClears == 1
\* runs of the periodic sweep in one behaviour
MaxSweeps == 1
\* events in the answer of the primary query in SpecCalls
MaxListed == 2

\* most ticket classes in one answer of the secondary query
MaxClasses == 2

(***************************************************************************)
(* Program constants                                                       *)
(***************************************************************************)
CACHE_TTL == 5 * 60 * 1000
SWEEP_INTERVAL == 10 * 60 * 1000
PRIMARY_RETRIES == 3
PRIMARY_DELAY == 1000
TICKET_RETRIES == 2
TICKET_DELAY == 500
MIN_MONTH == 1
MAX_MONTH == 12
MIN_YEAR == 2000
MAX_YEAR == 2100

(***************************************************************************)
(* axios errors: status is 0 when the error carries no response; message   *)
(* is "axios" for whatever text axios gives its errors                     *)
(***************************************************************************)
HttpError(status, retryAfter) ==
    [status |-> status, code |-> "ERR_BAD_RESPONSE", retryAfter |-> retryAfter,
     message |-> "axios"]

NetError(code) ==
    [status |-> 0, code |-> code, retryAfter |-> "", message |-> "axios"]

\* `undefined`: what lastError holds before any attempt failed
NoError == [status |-> 0, code |-> "", retryAfter |-> "", message |-> ""]

RetryableErrors ==
    {HttpError(502, ""), HttpError(503, ""), HttpError(504, ""),
     NetError("ECONNABORTED"), NetError("ETIMEDOUT")}

FatalErrors ==
    {HttpError(401, ""), HttpError(429, ""), HttpError(429, "30"),
     HttpError(404, ""), HttpError(500, ""), NetError("ECONNRESET")}

AxiosErrors == RetryableErrors \cup FatalErrors

(***************************************************************************)
(* fetchWithRetry                                                          *)
(*                                                                         *)
(* A call is a record: st is idle, pending (awaiting axios.get), sleeping  *)
(* (awaiting the backoff timer), returned or thrown; i is the loop index;  *)
(* waits lists the delays handed to setTimeout; lastError is the variable  *)
(* of that name.                                                           *)
(***************************************************************************)
\* a test that takes every 5xx for a passing failure; C28 must tell it from
\* IsServerError
IsServerErrorAny5xx(error) == error.status >= 500 /\ error.status <= 599

IsServerError(error) == error.status # 0 /\ error.status \in {502, 503, 504}

IsTimeout(error) == error.code = "ECONNABORTED" \/ error.code = "ETIMEDOUT"

\* a fetcher that also waits out a rate limit; C5 must tell it from ShouldRetry
ShouldRetryRateLimited(error) ==
    IsServerError(error) \/ IsTimeout(error) \/ error.status = 429

\* a fetcher that never retries; C24 must tell it from ShouldRetry
ShouldRetryNever(error) == FALSE

ShouldRetry(error) == IsServerError(error) \/ IsTimeout(error)

IsLastAttempt(i, retries) == i = retries - 1

\* a backoff that grows by delay each time; C4 must tell it from WaitTime
WaitTimeLinear(delay, i) == delay * (i + 1)

WaitTime(delay, i) == delay * (2 ^ i)

\* a call that has not been made
IdleFetch ==
    [st |-> "idle", i |-> 0, retries |-> 0, delay |-> 0, waits |-> <<>>,
     lastError |-> NoError]

\* the call, up to its first await: the loop is entered only when 0 < retries
FetchStart(retries, delay) ==
    IF 0 < retries
    THEN [IdleFetch EXCEPT !.st = "pending", !.retries = retries,
                           !.delay = delay]
    ELSE [IdleFetch EXCEPT !.st = "thrown", !.retries = retries,
                           !.delay = delay]

\* axios.get resolved on attempt i: the response is returned and the locals
\* of the call are gone
FetchOnResponse(f) ==
    [IdleFetch EXCEPT !.st = "returned", !.i = f.i, !.retries = f.retries,
                      !.delay = f.delay]

\* a catch block that keeps the first error it saw; C22 must tell it from
\* FetchOnError
FetchOnErrorKeepFirst(f, error) ==
    LET kept == IF f.lastError = NoError THEN error ELSE f.lastError
    IN  IF ~IsLastAttempt(f.i, f.retries) /\ ShouldRetry(error)
        THEN [f EXCEPT !.st = "sleeping", !.lastError = kept,
                       !.waits = Append(@, WaitTime(f.delay, f.i))]
        ELSE [f EXCEPT !.st = "thrown", !.lastError = kept]

\* axios.get rejected: the catch block, up to its await or its throw
FetchOnError(f, error) ==
    IF ~IsLastAttempt(f.i, f.retries) /\ ShouldRetry(error)
    THEN [f EXCEPT !.st = "sleeping", !.lastError = error,
                   !.waits = Append(@, WaitTime(f.delay, f.i))]
    ELSE [f EXCEPT !.st = "thrown", !.lastError = error]

\* the backoff timer fired: i++, then the next attempt or the loop's exit
FetchOnTimer(f) ==
    IF f.i + 1 < f.retries
    THEN [f EXCEPT !.st = "pending", !.i = @ + 1]
    ELSE [f EXCEPT !.st = "thrown", !.i = @ + 1]

\* the axios.get calls a call has made so far
Attempts(f) ==
    IF f.st = "idle" THEN 0
    ELSE IF f.i < f.retries THEN f.i + 1 ELSE f.retries

(***************************************************************************)
(* Strings are sequences of one-character strings.                         *)
(***************************************************************************)
DigitChars == <<"0", "1", "2", "3", "4", "5", "6", "7", "8", "9">>

IsDigit(c) == \E d \in 1..10 : DigitChars[d] = c

DigitVal(c) == (CHOOSE d \in 1..10 : DigitChars[d] = c) - 1

RECURSIVE SkipSpaces(_)
SkipSpaces(s) ==
    IF s # <<>> /\ Head(s) = " " THEN SkipSpaces(Tail(s)) ELSE s

RECURSIVE DigitsPrefix(_)
DigitsPrefix(s) ==
    IF s # <<>> /\ IsDigit(Head(s))
    THEN <<Head(s)>> \o DigitsPrefix(Tail(s))
    ELSE <<>>

RECURSIVE DigitsValue(_, _)
DigitsValue(ds, acc) ==
    IF ds = <<>> THEN acc
    ELSE DigitsValue(Tail(ds), acc * 10 + DigitVal(Head(ds)))

NaN == [nan |-> TRUE, val |-> 0]

\* parseInt(s, 10): leading white space, an optional sign, then the longest
\* run of digits; NaN when there is no digit
ParseInt(s) ==
    LET t    == SkipSpaces(s)
        sign == t # <<>> /\ (Head(t) = "-" \/ Head(t) = "+")
        u    == IF sign THEN Tail(t) ELSE t
        ds   == DigitsPrefix(u)
        v    == DigitsValue(ds, 0)
    IN  IF ds = <<>> THEN NaN
        ELSE [nan |-> FALSE, val |-> IF sign /\ Head(t) = "-" THEN 0 - v ELSE v]

RECURSIVE NatToString(_)
NatToString(n) ==
    IF n < 10 THEN <<DigitChars[n + 1]>>
    ELSE NatToString(n \div 10) \o <<DigitChars[(n % 10) + 1]>>

\* Number.prototype.toString of an integer
NumToString(n) == IF n < 0 THEN <<"-">> \o NatToString(0 - n) ELSE NatToString(n)

\* s.padStart(2, '0')
PadStart2(s) == IF Len(s) < 2 THEN <<"0">> \o s ELSE s

(***************************************************************************)
(* The query parameters and their validation                               *)
(***************************************************************************)
\* a query parameter: absent (undefined) or a string
Absent == [given |-> FALSE, text |-> <<>>]

Param(text) == [given |-> TRUE, text |-> text]

\* !month: undefined and the empty string are falsy
Falsy(raw) == ~raw.given \/ raw.text = <<>>

\* a range check that lets month 0 through; C9 must tell it from MonthInRange
MonthInRangeFromZero(monthNum) ==
    ~(monthNum.nan \/ monthNum.val < 0 \/ monthNum.val > MAX_MONTH)

MonthInRange(monthNum) ==
    ~(monthNum.nan \/ monthNum.val < MIN_MONTH \/ monthNum.val > MAX_MONTH)

\* a check that lets any year from MIN_YEAR on through; C27 must tell it from
\* YearInRange
YearInRangeNoUpper(yearNum) == ~(yearNum.nan \/ yearNum.val < MIN_YEAR)

YearInRange(yearNum) ==
    ~(yearNum.nan \/ yearNum.val < MIN_YEAR \/ yearNum.val > MAX_YEAR)

\* the checks of the handler in their order: which 400 is sent, if any
Validate(month, year) ==
    IF Falsy(month) \/ Falsy(year) THEN "missing"
    ELSE IF ~MonthInRange(ParseInt(month.text)) THEN "month"
    ELSE IF ~YearInRange(ParseInt(year.text)) THEN "year"
    ELSE "ok"

\* a key that leaves the year out; C13 must tell it from CacheKey
CacheKeyMonthOnly(yearNum, monthNum) ==
    <<"e", "v", "e", "n", "t", "s", "_">> \o NumToString(monthNum)

\* `events_${yearNum}_${monthNum}`
CacheKey(yearNum, monthNum) ==
    <<"e", "v", "e", "n", "t", "s", "_">> \o NumToString(yearNum)
        \o <<"_">> \o NumToString(monthNum)

(***************************************************************************)
(* Dates                                                                   *)
(***************************************************************************)
\* a calendar with a leap year every fourth year; C12 must tell it from IsLeap
IsLeapEveryFourth(y) == y % 4 = 0

IsLeap(y) == (y % 4 = 0 /\ y % 100 # 0) \/ y % 400 = 0

\* the days of month index m0 (0 = January) of year y
DaysInMonth(y, m0) ==
    IF m0 = 1 THEN (IF IsLeap(y) THEN 29 ELSE 28)
    ELSE IF m0 \in {3, 5, 8, 10} THEN 30 ELSE 31

\* new Date(yearNum, monthNum, 0).getDate(): the month index is normalised
\* into 0..11 carrying into the year, and day 0 is the last day of the
\* month before
LastDay(yearNum, monthNum) ==
    LET y1 == yearNum + (monthNum \div 12)
        m1 == monthNum % 12
        y0 == IF m1 = 0 THEN y1 - 1 ELSE y1
        m0 == IF m1 = 0 THEN 11 ELSE m1 - 1
    IN  DaysInMonth(y0, m0)

\* startDate and endDate as the handler formats them
DateRange(yearNum, monthNum) ==
    LET monthPadded   == PadStart2(NumToString(monthNum))
        lastDayPadded == PadStart2(NumToString(LastDay(yearNum, monthNum)))
        head          == NumToString(yearNum) \o <<"-">> \o monthPadded \o <<"-">>
    IN  [startDate |-> head \o <<"0", "1">>
                          \o <<"T", "0", "0", ":", "0", "0", ":", "0", "0", "Z">>,
         endDate   |-> head \o lastDayPadded
                          \o <<"T", "2", "3", ":", "5", "9", ":", "5", "9", "Z">>]

\* an upstream event: an id and, when given, its start as a UTC date and hour
Event(id, y, mo, d, h) ==
    [id |-> id, hasStart |-> TRUE, y |-> y, mo |-> mo, d |-> d, h |-> h]

EventNoStart(id) ==
    [id |-> id, hasStart |-> FALSE, y |-> 0, mo |-> 0, d |-> 0, h |-> 0]

\* new Date(event.start.utc) read with getFullYear() and getMonth(): the
\* year and the month index in the zone of the process, tz hours off UTC
LocalYearMonth(e, tz) ==
    LET lh == e.h + tz
    IN  IF lh < 0
        THEN IF e.d > 1 THEN [year |-> e.y, month |-> e.mo - 1]
             ELSE IF e.mo > 1 THEN [year |-> e.y, month |-> e.mo - 2]
             ELSE [year |-> e.y - 1, month |-> 11]
        ELSE IF lh >= 24
        THEN IF e.d < DaysInMonth(e.y, e.mo - 1) THEN [year |-> e.y, month |-> e.mo - 1]
             ELSE IF e.mo < 12 THEN [year |-> e.y, month |-> e.mo]
             ELSE [year |-> e.y + 1, month |-> 0]
        ELSE [year |-> e.y, month |-> e.mo - 1]

\* the predicate of allEvents.filter
EventInMonth(e, yearNum, monthNum, tz) ==
    IF ~e.hasStart THEN FALSE
    ELSE LocalYearMonth(e, tz).year = yearNum
         /\ LocalYearMonth(e, tz).month = monthNum - 1

FilterEvents(allEvents, yearNum, monthNum, tz) ==
    SelectSeq(allEvents, LAMBDA e : EventInMonth(e, yearNum, monthNum, tz))

(***************************************************************************)
(* getEventTicketInfo                                                      *)
(*                                                                         *)
(* A JavaScript number is a record: NaN, Infinity, or c hundredths (162.17 *)
(* is c = 16217; digits past the second decimal are dropped).              *)
(***************************************************************************)
Num(c) == [nan |-> FALSE, inf |-> FALSE, c |-> c]

NumNaN == [nan |-> TRUE, inf |-> FALSE, c |-> 0]

NumInf == [nan |-> FALSE, inf |-> TRUE, c |-> 0]

\* null, and a value that is not null
Null == <<>>

Some(v) == <<v>>

\* parseFloat(s): white space, an optional sign, digits, an optional point
\* and digits; NaN when no digit is read
ParseFloat(s) ==
    LET t     == SkipSpaces(s)
        sign  == t # <<>> /\ (Head(t) = "-" \/ Head(t) = "+")
        u     == IF sign THEN Tail(t) ELSE t
        ip    == DigitsPrefix(u)
        rest  == SubSeq(u, Len(ip) + 1, Len(u))
        fp    == IF rest # <<>> /\ Head(rest) = "." THEN DigitsPrefix(Tail(rest))
                 ELSE <<>>
        f2    == SubSeq(fp \o <<"0", "0">>, 1, 2)
        c     == DigitsValue(ip, 0) * 100 + DigitsValue(f2, 0)
    IN  IF ip = <<>> /\ fp = <<>> THEN NumNaN
        ELSE Num(IF sign /\ Head(t) = "-" THEN 0 - c ELSE c)

\* display.replace(/[^\d.-]/g, '')
StripNonNumeric(s) ==
    SelectSeq(s, LAMBDA ch : IsDigit(ch) \/ ch = "." \/ ch = "-")

RECURSIVE DigitCommaPrefix(_)
DigitCommaPrefix(s) ==
    IF s # <<>> /\ (IsDigit(Head(s)) \/ Head(s) = ",")
    THEN <<Head(s)>> \o DigitCommaPrefix(Tail(s))
    ELSE <<>>

\* display.match(/[\d,]+\.?\d*/): the first match, <<>> when there is none
RECURSIVE DisplayMatch(_)
DisplayMatch(s) ==
    IF s = <<>> THEN <<>>
    ELSE IF IsDigit(Head(s)) \/ Head(s) = ","
    THEN LET run  == DigitCommaPrefix(s)
             rest == SubSeq(s, Len(run) + 1, Len(s))
         IN  IF rest # <<>> /\ Head(rest) = "."
             THEN run \o <<".">> \o DigitsPrefix(Tail(rest))
             ELSE run
    ELSE DisplayMatch(Tail(s))

\* m.replace(',', ''): only the first comma goes
RECURSIVE ReplaceFirstComma(_)
ReplaceFirstComma(s) ==
    IF s = <<>> THEN <<>>
    ELSE IF Head(s) = "," THEN Tail(s)
    ELSE <<Head(s)>> \o ReplaceFirstComma(Tail(s))

\* one entry of ticket_classes; display = <<>> and value = 0 are the falsy
\* cost.display and cost.value, currency = "" the falsy currency
TicketClass(hidden, status, free, currency, display, value, total, sold) ==
    [hidden |-> hidden, on_sale_status |-> status, free |-> free,
     currency |-> currency, display |-> display, value |-> value,
     quantity_total |-> total, quantity_sold |-> sold]

\* getPriceValue of the sort's comparator
GetPriceValue(ticket) ==
    IF ticket.display # <<>> THEN ParseFloat(StripNonNumeric(ticket.display))
    ELSE IF ticket.value # 0 THEN Num(ticket.value * 100)
    ELSE IF ticket.free THEN Num(0) ELSE NumInf

\* priceA - priceB < 0; a NaN difference compares as equal
PriceBefore(a, b) ==
    IF a.nan \/ b.nan THEN FALSE
    ELSE IF a.inf THEN FALSE
    ELSE IF b.inf THEN TRUE
    ELSE a.c < b.c

\* a stable insertion of ticket t into the sorted sequence ts
RECURSIVE InsertByPrice(_, _)
InsertByPrice(ts, t) ==
    IF ts = <<>> THEN <<t>>
    ELSE IF PriceBefore(GetPriceValue(t), GetPriceValue(Head(ts)))
    THEN <<t>> \o ts
    ELSE <<Head(ts)>> \o InsertByPrice(Tail(ts), t)

\* ticketsForPrice.sort(...): a stable sort ascending by getPriceValue
RECURSIVE SortByPrice(_)
SortByPrice(ts) ==
    IF ts = <<>> THEN <<>>
    ELSE InsertByPrice(SortByPrice(SubSeq(ts, 1, Len(ts) - 1)), ts[Len(ts)])

\* the price of the cheapest ticket, in hundredths
BasePrice(cheapestTicket) ==
    IF cheapestTicket.free THEN Num(0)
    ELSE IF cheapestTicket.display # <<>>
    THEN LET displayMatch == DisplayMatch(cheapestTicket.display)
         IN  IF displayMatch # <<>>
             THEN ParseFloat(ReplaceFirstComma(displayMatch))
             ELSE Num(0)
    ELSE IF cheapestTicket.value # 0 THEN Num(cheapestTicket.value)
    ELSE Num(0)

\* the reduce over max(0, total - sold)
RECURSIVE SumRemaining(_)
SumRemaining(ts) ==
    IF ts = <<>> THEN 0
    ELSE LET left == Head(ts).quantity_total - Head(ts).quantity_sold
         IN  (IF left > 0 THEN left ELSE 0) + SumRemaining(Tail(ts))

\* the reduce over quantity_total
RECURSIVE SumTotal(_)
SumTotal(ts) ==
    IF ts = <<>> THEN 0 ELSE Head(ts).quantity_total + SumTotal(Tail(ts))

OrMXN(currency) == IF currency = "" THEN "MXN" ELSE currency

IsOnSale(ticket) ==
    ticket.on_sale_status = "AVAILABLE" \/ ticket.on_sale_status = "SALE_SCHEDULED"

\* visibleTickets, or every class when all are hidden
TicketsToAnalyze(ticketClasses) ==
    LET visibleTickets == SelectSeq(ticketClasses, LAMBDA t : ~t.hidden)
    IN  IF Len(visibleTickets) > 0 THEN visibleTickets ELSE ticketClasses

\* the classes of ticketsToAnalyze that are on sale or scheduled
AvailableTickets(ticketClasses) ==
    SelectSeq(TicketsToAnalyze(ticketClasses), IsOnSale)

\* the classes the price is taken from
TicketsForPrice(ticketClasses) ==
    IF Len(AvailableTickets(ticketClasses)) > 0
    THEN AvailableTickets(ticketClasses)
    ELSE TicketsToAnalyze(ticketClasses)

\* the try block of getEventTicketInfo after the fetch returned ticketClasses
TicketInfo(ticketClasses) ==
    IF Len(ticketClasses) = 0
    THEN [base_price |-> Some(Num(0)), currency |-> "MXN",
          available_tickets |-> Some(0), total_tickets |-> Some(0),
          is_free |-> Some(TRUE), error |-> Null]
    ELSE
    LET availableTickets == AvailableTickets(ticketClasses)
        ticketsForPrice  == TicketsForPrice(ticketClasses)
        cheapestTicket   == SortByPrice(ticketsForPrice)[1]
        basePrice        == BasePrice(cheapestTicket)
        totalAvailable   == SumRemaining(availableTickets)
        finalAvailable   == IF totalAvailable > 0 THEN totalAvailable
                            ELSE SumRemaining(ticketClasses)
    IN  IF Len(ticketsForPrice) = 0
        THEN [base_price |-> Some(Num(0)),
              currency |-> OrMXN(ticketClasses[1].currency),
              available_tickets |-> Some(0),
              total_tickets |-> Some(SumTotal(ticketClasses)),
              is_free |-> Some(TRUE), error |-> Null]
        ELSE [base_price |-> Some(basePrice),
              currency |-> OrMXN(cheapestTicket.currency),
              available_tickets |-> Some(finalAvailable),
              total_tickets |-> Some(SumTotal(ticketClasses)),
              is_free |-> Some(basePrice = Num(0) \/ cheapestTicket.free),
              error |-> Null]

\* the catch block of getEventTicketInfo
UnavailableInfo ==
    [base_price |-> Null, currency |-> "MXN", available_tickets |-> Null,
     total_tickets |-> Null, is_free |-> Null, error |-> Some("No disponible")]


(***************************************************************************)
(* The cache: a Map from key to {data, expiry, timestamp}                  *)
(***************************************************************************)
EmptyMap == [k \in {} |-> 0]

\* a set that keeps the entry a key already has; C14 must tell it from MapSet
MapSetIfAbsent(map, key, value) ==
    [k \in DOMAIN map \cup {key} |-> IF k \in DOMAIN map THEN map[k] ELSE value]

\* cache.set(key, value)
MapSet(map, key, value) ==
    [k \in DOMAIN map \cup {key} |-> IF k = key THEN value ELSE map[k]]

\* a freshness check that still serves at the instant of expiry; C1 must tell
\* it from CacheFresh
CacheFreshInclusive(map, key, t) ==
    IF key \in DOMAIN map THEN t <= map[key].expiry ELSE FALSE

\* cached && Date.now() < cached.expiry
CacheFresh(map, key, t) ==
    IF key \in DOMAIN map THEN t < map[key].expiry ELSE FALSE

\* an entry stored without its time to live; C2 must tell it from CacheEntry
CacheEntryNoTTL(data, t) == [data |-> data, expiry |-> t, timestamp |-> t]

\* an entry whose expiry is not counted from now; C3 must tell it from
\* CacheEntry
CacheEntryAbsolute(data, t) ==
    [data |-> data, expiry |-> CACHE_TTL, timestamp |-> t]

\* the entry the handler stores
CacheEntry(data, t) ==
    [data |-> data, expiry |-> t + CACHE_TTL, timestamp |-> t]

\* a sweep that deletes every entry, expired or not; C19 must tell it from
\* CleanExpired
CleanEverything(map, t) == [k \in {} |-> map[k]]

\* cleanExpiredCache: every entry with now > expiry is deleted
CleanExpired(map, t) ==
    [k \in {j \in DOMAIN map : ~(t > map[j].expiry)} |-> map[k]]

\* the size read after the Map was emptied; C8 must tell it from CacheSize
SizeAfterClear(map) == Cardinality(DOMAIN [k \in {} |-> map])

\* cache.size
CacheSize(map) == Cardinality(DOMAIN map)

(***************************************************************************)
(* The responses of GET /api/events                                        *)
(***************************************************************************)
NoResp ==
    [status |-> 0, xcache |-> "", expiresIn |-> 0, hasList |-> FALSE,
     list |-> <<>>, error |-> "", retryAfter |-> "", details |-> ""]

\* the three 400 answers of the validation
BadRequest(which) == [NoResp EXCEPT !.status = 400, !.error = which]

\* Math.round((expiry - now) / 1000) of a positive difference
ExpiresIn(expiry, t) == (expiry - t + 500) \div 1000

\* X-Cache: HIT with the cached data
HitResponse(entry, t) ==
    [NoResp EXCEPT !.status = 200, !.xcache = "HIT", !.hasList = TRUE,
                   !.expiresIn = ExpiresIn(entry.expiry, t),
                   !.list = entry.data]

\* X-Cache: MISS with the freshly built list
MissResponse(list) ==
    [NoResp EXCEPT !.status = 200, !.xcache = "MISS", !.hasList = TRUE,
                   !.list = list]

\* the catch block of the handler
ErrorResponse(error) ==
    IF error.status # 0
    THEN IF error.status = 401
         THEN [NoResp EXCEPT !.status = 401, !.error = "auth"]
         ELSE IF error.status = 429
         THEN [NoResp EXCEPT !.status = 429, !.error = "rate_limit",
                             !.retryAfter = IF error.retryAfter # ""
                                            THEN error.retryAfter
                                            ELSE "60 segundos"]
         ELSE IF error.status = 502 \/ error.status = 503 \/ error.status = 504
         THEN [NoResp EXCEPT !.status = 503, !.error = "unavailable"]
         ELSE [NoResp EXCEPT !.status = error.status, !.error = "api"]
    ELSE IF error.code = "ECONNABORTED" \/ error.code = "ETIMEDOUT"
    THEN [NoResp EXCEPT !.status = 504, !.error = "timeout"]
    ELSE [NoResp EXCEPT !.status = 500, !.error = "connection",
                        !.details = error.message]

\* new Error('EVENTBRITE_TOKEN no está configurado'): no response, no code
ConfigError ==
    [status |-> 0, code |-> "", retryAfter |-> "",
     message |-> "EVENTBRITE_TOKEN no está configurado"]

\* a server that never misses its credential; C15 must tell it from
\* TokenMissing
TokenNeverMissing(token) == FALSE

\* !process.env.EVENTBRITE_TOKEN
TokenMissing(token) == ~token

(***************************************************************************)
(* One request to GET /api/events                                          *)
(*                                                                         *)
(* pc: idle (no request), primary (awaiting the primary fetchWithRetry),   *)
(* enrich (awaiting Promise.all), done (a list was answered), failed (an   *)
(* error was answered).  looked tells whether cache.get was called and had *)
(* whether it found an entry, fresh or not.                                *)
(***************************************************************************)
NewRequest ==
    [pc |-> "idle", month |-> Absent, year |-> Absent, monthNum |-> 0,
     yearNum |-> 0, key |-> <<>>, looked |-> FALSE, had |-> FALSE,
     primary |-> IdleFetch,
     events |-> <<>>, tickets |-> <<>>, resp |-> NoResp]

\* a getEventTicketInfo whose fetch has the budget of the primary fetch; C23
\* must tell it from NewTicket
NewTicketPrimaryBudget ==
    [f |-> FetchStart(PRIMARY_RETRIES, TICKET_DELAY), settled |-> FALSE,
     classes |-> <<>>, info |-> UnavailableInfo]

\* one call of getEventTicketInfo: its fetch, what the fetch returned, and
\* the ticket_info it resolved to
NewTicket ==
    [f |-> FetchStart(TICKET_RETRIES, TICKET_DELAY), settled |-> FALSE,
     classes |-> <<>>, info |-> UnavailableInfo]

\* {...event, ticket_info: ticketInfo}
WithTicketInfo(event, ticketInfo) ==
    [id |-> event.id, hasStart |-> event.hasStart, y |-> event.y,
     mo |-> event.mo, d |-> event.d, h |-> event.h, ticket_info |-> ticketInfo]

\* a list paired with the events in reverse; C6 must tell it from
\* EventsWithTickets
EventsWithTicketsReversed(events, tickets) ==
    [i \in 1..Len(events) |->
        WithTicketInfo(events[Len(events) + 1 - i], tickets[i].info)]

\* what Promise.all resolves to: one element per event, in order
EventsWithTickets(events, tickets) ==
    [i \in 1..Len(events) |-> WithTicketInfo(events[i], tickets[i].info)]

\* a wait that ends with the first getEventTicketInfo to settle; C21 must
\* tell it from AllSettled
AnySettled(tickets) == \E i \in 1..Len(tickets) : tickets[i].settled

AllSettled(tickets) == \A i \in 1..Len(tickets) : tickets[i].settled

\* a settled getEventTicketInfo keeps of its fetch only how it ended
Ended(f) == [IdleFetch EXCEPT !.st = f.st]

\* getEventTicketInfo after its fetch returned ticketClasses
TicketReturned(ticket, f, ticketClasses) ==
    [ticket EXCEPT !.f = Ended(f), !.settled = TRUE,
                   !.classes = ticketClasses,
                   !.info = TicketInfo(ticketClasses)]

\* a catch block that answers as for an event without ticket classes; C7 must
\* tell it from TicketFailed
TicketFailedAsEmpty(ticket, f) ==
    [ticket EXCEPT !.f = Ended(f), !.settled = TRUE, !.info = TicketInfo(<<>>)]

\* getEventTicketInfo after its fetch threw: the catch block
TicketFailed(ticket, f) ==
    [ticket EXCEPT !.f = Ended(f), !.settled = TRUE, !.info = UnavailableInfo]

\* the handler from its first line to its answer or its first await
HandleRequest(month, year, map, token, t) ==
    LET v        == Validate(month, year)
        monthNum == ParseInt(month.text).val
        yearNum  == ParseInt(year.text).val
        cacheKey == CacheKey(yearNum, monthNum)
        arrived  == [NewRequest EXCEPT !.month = month, !.year = year]
        checked  == [arrived EXCEPT !.monthNum = monthNum, !.yearNum = yearNum,
                                    !.key = cacheKey, !.looked = TRUE,
                                    !.had = cacheKey \in DOMAIN map]
    IN  IF v # "ok"
        THEN [arrived EXCEPT !.pc = "failed", !.resp = BadRequest(v)]
        ELSE IF CacheFresh(map, cacheKey, t)
        THEN [checked EXCEPT !.pc = "done",
                             !.resp = HitResponse(map[cacheKey], t)]
        ELSE IF TokenMissing(token)
        THEN [checked EXCEPT !.pc = "failed",
                             !.resp = ErrorResponse(ConfigError)]
        ELSE [checked EXCEPT !.pc = "primary",
                             !.primary = FetchStart(PRIMARY_RETRIES,
                                                    PRIMARY_DELAY)]

\* a catch block that answers an empty list; C10 must tell it from
\* PrimaryFailed
PrimaryFailedEmptyList(q, f) ==
    [q EXCEPT !.pc = "failed", !.primary = f, !.resp = MissResponse(<<>>)]

\* the primary fetchWithRetry threw: the catch block answers
PrimaryFailed(q, f) ==
    [q EXCEPT !.pc = "failed", !.primary = f,
              !.resp = ErrorResponse(f.lastError)]

\* the primary fetchWithRetry went on or threw
PrimaryStep(q, f) ==
    IF f.st = "thrown" THEN PrimaryFailed(q, f) ELSE [q EXCEPT !.primary = f]

\* the primary fetchWithRetry returned: the local filter, then one
\* getEventTicketInfo per event, each up to its first await
PrimaryReturned(q, f, allEvents, tz) ==
    LET filteredEvents == FilterEvents(allEvents, q.yearNum, q.monthNum, tz)
    IN  [q EXCEPT !.pc = "enrich", !.primary = f,
                  !.events = filteredEvents,
                  !.tickets = [i \in 1..Len(filteredEvents) |-> NewTicket]]

\* the fetch of one getEventTicketInfo went on or threw
TicketStep(ticket, f) ==
    IF f.st = "thrown" THEN TicketFailed(ticket, f) ELSE [ticket EXCEPT !.f = f]

(***************************************************************************)
(* What the clients and the upstream may send                              *)
(***************************************************************************)
ValidYear == Param(<<"2", "0", "2", "4">>)

\* month values the handler accepts
ValidMonths == {Param(<<"0", "2">>), Param(<<"3">>)}

\* month values the handler rejects: missing, empty, not a number, 0, 13
InvalidMonths ==
    {Absent, Param(<<>>), Param(<<"x">>), Param(<<"0">>), Param(<<"1", "3">>)}

\* year values the handler rejects: missing, not a number, 1999, 2101
InvalidYears ==
    {Absent, Param(<<"a", "b">>), Param(<<"1", "9", "9", "9">>),
     Param(<<"2", "1", "0", "1">>)}

\* the query strings the clients send
Queries ==
    {[month |-> m, year |-> ValidYear] : m \in ValidMonths \cup InvalidMonths}
        \cup {[month |-> Param(<<"2">>), year |-> y] : y \in InvalidYears}
        \cup {[month |-> Absent, year |-> Absent]}

\* the events of the upstream: the first hour of February 2024, one without
\* start, the last hour of January, the last day of February, February of
\* the year before, and those after them all in December
EventPool ==
    <<Event("e1", 2024, 2, 1, 0), EventNoStart("e2"),
      Event("e3", 2024, 1, 31, 23), Event("e4", 2024, 2, 29, 12),
      Event("e5", 2023, 2, 10, 18)>>

Catalog(n) ==
    [i \in 1..n |-> IF i <= Len(EventPool) THEN EventPool[i]
                    ELSE Event("e6", 2024, 12, 24, 20)]

\* response.data.events of the primary query: the first n events of the pool
PrimaryBodies == {Catalog(n) : n \in 0..MaxCatalog}

\* the errors the upstream answers with in Spec
UpstreamErrors ==
    {HttpError(503, ""), NetError("ETIMEDOUT"), HttpError(401, ""),
     HttpError(429, "30"), HttpError(404, ""), NetError("ECONNRESET")}

TicketErrors == {HttpError(503, ""), HttpError(404, "")}

PaidTicket ==
    TicketClass(FALSE, "AVAILABLE", FALSE, "MXN",
                <<"$", "1", "6", "2", ".", "1", "7", " ", "M", "X", "N">>,
                16217, 10, 3)

HiddenFreeTicket == TicketClass(TRUE, "SOLD_OUT", TRUE, "USD", <<>>, 0, 5, 5)

\* response.data.ticket_classes of the secondary query
TicketBodies == {<<HiddenFreeTicket, PaidTicket>>}

TimeZones == {0, -6}

Requests == {"r1"}

\* no function called on its own
NoCall == [fn |-> "none"]

NoLog == [errs |-> <<>>, attemptAt |-> <<>>, failedAt |-> <<>>, wakeAt |-> 0]

(***************************************************************************)
(* Spec: the server                                                        *)
(***************************************************************************)
Init ==
    /\ now = 0
    /\ env \in [token : BOOLEAN, tz : TimeZones]
    /\ cache = EmptyMap
    /\ req = [r \in Requests |-> NewRequest]
    /\ cleared = 0
    /\ stored = EmptyMap
    /\ clearedKeys = {}
    /\ clears = 0
    /\ sweeps = 0
    /\ fr = IdleFetch
    /\ frLog = NoLog
    /\ call = NoCall

\* a handler that deletes the entry of its key when it does not serve it;
\* C25 must tell it from GetEvents
GetEventsEvicting(r, month, year) ==
    /\ req[r].pc \in {"idle", "done", "failed"}
    /\ req' = [req EXCEPT ![r] = HandleRequest(month, year, cache,
                                               env.token, now)]
    /\ cache' = IF req'[r].resp.xcache = "HIT" THEN cache
                ELSE [k \in DOMAIN cache \ {req'[r].key} |-> cache[k]]
    /\ UNCHANGED <<now, env, cleared, stored, clearedKeys, clears, sweeps, fr,
                   frLog, call>>

\* GET /api/events?month=..&year=..: the handler runs up to its answer or
\* its first await
GetEvents(r, month, year) ==
    /\ req[r].pc \in {"idle", "done", "failed"}
    /\ req' = [req EXCEPT ![r] = HandleRequest(month, year, cache,
                                               env.token, now)]
    /\ UNCHANGED <<now, env, cache, cleared, stored, clearedKeys, clears,
                   sweeps, fr, frLog, call>>

\* a handler that answers but does not store a list with a degraded
\* ticket_info; C26 must tell it from Continue
ContinueStoreComplete(r, q) ==
    IF AllSettled(q.tickets)
    THEN LET eventsWithTickets == EventsWithTickets(q.events, q.tickets)
             degraded == \E i \in 1..Len(q.tickets) :
                             q.tickets[i].info = UnavailableInfo
         IN  /\ cache' = IF degraded THEN cache
                         ELSE MapSet(cache, q.key,
                                     CacheEntry(eventsWithTickets, now))
             /\ stored' = IF degraded THEN stored
                          ELSE [ym \in DOMAIN stored
                                       \cup {<<q.yearNum, q.monthNum>>}
                                   |-> IF ym = <<q.yearNum, q.monthNum>>
                                       THEN [data |-> eventsWithTickets,
                                             at |-> now, by |-> r]
                                       ELSE stored[ym]]
             /\ clearedKeys' = clearedKeys \ {q.key}
             /\ req' = [req EXCEPT ![r] =
                           [q EXCEPT !.pc = "done",
                                     !.resp = MissResponse(eventsWithTickets)]]
    ELSE /\ req' = [req EXCEPT ![r] = q]
         /\ UNCHANGED <<cache, stored, clearedKeys>>

\* a handler that gives up when a ticket fetch threw; C20 must tell it from
\* Continue
ContinueUnlessThrown(r, q) ==
    /\ req' = [req EXCEPT ![r] =
                  IF \E i \in 1..Len(q.tickets) : q.tickets[i].f.st = "thrown"
                  THEN [q EXCEPT !.pc = "failed",
                                 !.resp = ErrorResponse(NoError)]
                  ELSE q]
    /\ UNCHANGED <<cache, stored, clearedKeys>>

\* Promise.all settled or not: when every getEventTicketInfo has settled the
\* list is stored under the key with expiry now + CACHE_TTL and answered
Continue(r, q) ==
    IF AllSettled(q.tickets)
    THEN LET eventsWithTickets == EventsWithTickets(q.events, q.tickets)
         IN  /\ cache' = MapSet(cache, q.key, CacheEntry(eventsWithTickets, now))
             /\ stored' = [ym \in DOMAIN stored \cup {<<q.yearNum, q.monthNum>>}
                               |-> IF ym = <<q.yearNum, q.monthNum>>
                                   THEN [data |-> eventsWithTickets,
                                         at |-> now, by |-> r]
                                   ELSE stored[ym]]
             /\ clearedKeys' = clearedKeys \ {q.key}
             /\ req' = [req EXCEPT ![r] =
                           [q EXCEPT !.pc = "done",
                                     !.resp = MissResponse(eventsWithTickets)]]
    ELSE /\ req' = [req EXCEPT ![r] = q]
         /\ UNCHANGED <<cache, stored, clearedKeys>>

\* the pending primary axios.get resolves with a list of events
PrimaryResolve(r, allEvents) ==
    /\ req[r].pc = "primary"
    /\ req[r].primary.st = "pending"
    /\ Continue(r, PrimaryReturned(req[r], FetchOnResponse(req[r].primary),
                                   allEvents, env.tz))
    /\ UNCHANGED <<now, env, cleared, clears, sweeps, fr, frLog, call>>

\* the pending primary axios.get rejects
PrimaryReject(r, error) ==
    /\ req[r].pc = "primary"
    /\ req[r].primary.st = "pending"
    /\ req' = [req EXCEPT ![r] =
                  PrimaryStep(@, FetchOnError(@.primary, error))]
    /\ UNCHANGED <<now, env, cache, cleared, stored, clearedKeys, clears,
                   sweeps, fr, frLog, call>>

\* the backoff timer of the primary fetch fires
PrimaryTimer(r) ==
    /\ req[r].pc = "primary"
    /\ req[r].primary.st = "sleeping"
    /\ req' = [req EXCEPT ![r] = PrimaryStep(@, FetchOnTimer(@.primary))]
    /\ UNCHANGED <<now, env, cache, cleared, stored, clearedKeys, clears,
                   sweeps, fr, frLog, call>>

\* the pending axios.get of event i's ticket classes resolves
TicketResolve(r, i, ticketClasses) ==
    /\ req[r].pc = "enrich"
    /\ i \in 1..Len(req[r].tickets)
    /\ req[r].tickets[i].f.st = "pending"
    /\ Continue(r, [req[r] EXCEPT !.tickets[i] =
                       TicketReturned(@, FetchOnResponse(@.f), ticketClasses)])
    /\ UNCHANGED <<now, env, cleared, clears, sweeps, fr, frLog, call>>

\* the pending axios.get of event i's ticket classes rejects
TicketReject(r, i, error) ==
    /\ req[r].pc = "enrich"
    /\ i \in 1..Len(req[r].tickets)
    /\ req[r].tickets[i].f.st = "pending"
    /\ Continue(r, [req[r] EXCEPT !.tickets[i] =
                       TicketStep(@, FetchOnError(@.f, error))])
    /\ UNCHANGED <<now, env, cleared, clears, sweeps, fr, frLog, call>>

\* the backoff timer of event i's ticket fetch fires
TicketTimer(r, i) ==
    /\ req[r].pc = "enrich"
    /\ i \in 1..Len(req[r].tickets)
    /\ req[r].tickets[i].f.st = "sleeping"
    /\ Continue(r, [req[r] EXCEPT !.tickets[i] =
                       TicketStep(@, FetchOnTimer(@.f))])
    /\ UNCHANGED <<now, env, cleared, clears, sweeps, fr, frLog, call>>

\* POST /api/clear-cache: answers the size, empties the Map
ClearCache ==
    /\ clears < MaxClears
    /\ clears' = clears + 1
    /\ cleared' = CacheSize(cache)
    /\ cache' = EmptyMap
    /\ stored' = EmptyMap
    /\ clearedKeys' = DOMAIN cache
    /\ UNCHANGED <<now, env, req, sweeps, fr, frLog, call>>

\* the interval timer runs cleanExpiredCache, no sooner than its period
Sweep ==
    /\ sweeps < MaxSweeps
    /\ now >= (sweeps + 1) * SWEEP_INTERVAL
    /\ sweeps' = sweeps + 1
    /\ cache' = CleanExpired(cache, now)
    /\ UNCHANGED <<now, env, req, cleared, stored, clearedKeys, clears, fr,
                   frLog, call>>

\* the instants the clock is read at: the last one before the first entries
\* expire, the one they expire at, and the first run of the sweep
Instants == {CACHE_TTL - 1, CACHE_TTL, SWEEP_INTERVAL}

\* time passes
Tick(t) ==
    /\ t > now
    /\ t <= MaxTime
    /\ now' = t
    /\ UNCHANGED <<env, cache, req, cleared, stored, clearedKeys, clears,
                   sweeps, fr, frLog, call>>

Next ==
    \/ \E r \in DOMAIN req, q \in Queries : GetEvents(r, q.month, q.year)
    \/ \E r \in DOMAIN req, allEvents \in PrimaryBodies :
           PrimaryResolve(r, allEvents)
    \/ \E r \in DOMAIN req, error \in UpstreamErrors : PrimaryReject(r, error)
    \/ \E r \in DOMAIN req : PrimaryTimer(r)
    \/ \E r \in DOMAIN req, i \in 1..MaxCatalog, ticketClasses \in TicketBodies :
           TicketResolve(r, i, ticketClasses)
    \/ \E r \in DOMAIN req, i \in 1..MaxCatalog, error \in TicketErrors :
           TicketReject(r, i, error)
    \/ \E r \in DOMAIN req, i \in 1..MaxCatalog : TicketTimer(r, i)
    \/ ClearCache
    \/ Sweep
    \/ \E t \in Instants : Tick(t)

Spec == Init /\ [][Next]_vars

\* the pending axios.get of event i's ticket classes settles: it has a
\* timeout, so it resolves, here with an empty ticket_classes, or rejects
TicketSettle(r, i) ==
    \/ TicketResolve(r, i, <<>>)
    \/ \E error \in TicketErrors : TicketReject(r, i, error)

\* the requests of SpecLive: February 2024, and one without month
LiveQueries ==
    {[month |-> Param(<<"0", "2">>), year |-> ValidYear],
     [month |-> Absent, year |-> ValidYear]}

InitLive == Init /\ env.tz = 0

NextLive ==
    \/ \E r \in DOMAIN req, q \in LiveQueries : GetEvents(r, q.month, q.year)
    \/ \E r \in DOMAIN req, allEvents \in PrimaryBodies :
           PrimaryResolve(r, allEvents)
    \/ \E r \in DOMAIN req, error \in UpstreamErrors : PrimaryReject(r, error)
    \/ \E r \in DOMAIN req : PrimaryTimer(r)
    \/ \E r \in DOMAIN req, i \in 1..MaxCatalog : TicketSettle(r, i)
    \/ \E r \in DOMAIN req, i \in 1..MaxCatalog : TicketTimer(r, i)
    \/ Tick(CACHE_TTL)

\* a step of a ticket fetch: a pending axios.get settles or a backoff timer
\* fires
TicketProgress ==
    \E r \in Requests, i \in 1..MaxCatalog :
        TicketSettle(r, i) \/ TicketTimer(r, i)

\* the handler with the event loop's guarantee for the ticket fetches: while
\* one of them has a pending axios.get or a running timer, one of them moves
SpecLive == InitLive /\ [][NextLive]_vars /\ WF_vars(TicketProgress)

\* a step of the primary fetch: the pending axios.get resolves or rejects
\* (it has a timeout), or the backoff timer fires
PrimaryProgress ==
    \E r \in Requests :
        \/ \E allEvents \in PrimaryBodies : PrimaryResolve(r, allEvents)
        \/ \E error \in UpstreamErrors : PrimaryReject(r, error)
        \/ PrimaryTimer(r)

\* the handler when every upstream attempt is answered or times out and every
\* timer fires
SpecTerm ==
    /\ InitLive
    /\ [][NextLive]_vars
    /\ WF_vars(PrimaryProgress)
    /\ WF_vars(TicketProgress)

(***************************************************************************)
(* SpecRetry: one call of fetchWithRetry against an upstream that answers  *)
(* each attempt with a response or any of AxiosErrors.  The backoff timer  *)
(* fires no sooner than its delay.                                         *)
(***************************************************************************)
RetryDelays == {TICKET_DELAY, PRIMARY_DELAY}

InitRetry ==
    /\ now = 0
    /\ env = [token |-> TRUE, tz |-> 0]
    /\ cache = EmptyMap
    /\ req = [r \in Requests |-> NewRequest]
    /\ cleared = 0
    /\ stored = EmptyMap
    /\ clearedKeys = {}
    /\ clears = 0
    /\ sweeps = 0
    /\ \E retries \in 0..MaxRetries, delay \in RetryDelays :
           fr = FetchStart(retries, delay)
    /\ frLog = [NoLog EXCEPT !.attemptAt = IF fr.st = "pending" THEN <<0>>
                                           ELSE <<>>]
    /\ call = NoCall

RetryResolve ==
    /\ fr.st = "pending"
    /\ fr' = FetchOnResponse(fr)
    /\ UNCHANGED <<now, env, cache, req, cleared, stored, clearedKeys, clears,
                   sweeps, frLog, call>>

RetryReject(error) ==
    /\ fr.st = "pending"
    /\ fr' = FetchOnError(fr, error)
    /\ frLog' = [frLog EXCEPT !.errs = Append(@, error),
                              !.failedAt = Append(@, now),
                              !.wakeAt = IF fr'.st = "sleeping"
                                         THEN now + fr'.waits[Len(fr'.waits)]
                                         ELSE @]
    /\ UNCHANGED <<now, env, cache, req, cleared, stored, clearedKeys, clears,
                   sweeps, call>>

\* setTimeout(resolve, waitTime): not before waitTime has passed
RetryTimer ==
    /\ fr.st = "sleeping"
    /\ now >= frLog.wakeAt
    /\ fr' = FetchOnTimer(fr)
    /\ frLog' = [frLog EXCEPT !.attemptAt = IF fr'.st = "pending"
                                            THEN Append(@, now) ELSE @]
    /\ UNCHANGED <<now, env, cache, req, cleared, stored, clearedKeys, clears,
                   sweeps, call>>

RetryTick ==
    /\ now + TickStep <= MaxRetryTime
    /\ \/ fr.st = "pending"
          /\ now < frLog.attemptAt[Len(frLog.attemptAt)] + TickStep
       \/ fr.st = "sleeping" /\ now < frLog.wakeAt + TickStep
    /\ now' = now + TickStep
    /\ UNCHANGED <<env, cache, req, cleared, stored, clearedKeys, clears,
                   sweeps, fr, frLog, call>>

NextRetry ==
    \/ RetryResolve
    \/ \E error \in AxiosErrors : RetryReject(error)
    \/ RetryTimer
    \/ RetryTick

SpecRetry == InitRetry /\ [][NextRetry]_vars

(***************************************************************************)
(* SpecTwo: two requests for February 2024 served at the same time, each   *)
(* slot serving one request, on a server with its credential, without      *)
(* clear and sweep.                                                        *)
(***************************************************************************)
TwoRequests == {"r1", "r2"}

InitTwo ==
    /\ now = 0
    /\ env = [token |-> TRUE, tz |-> 0]
    /\ cache = EmptyMap
    /\ req = [r \in TwoRequests |-> NewRequest]
    /\ cleared = 0
    /\ stored = EmptyMap
    /\ clearedKeys = {}
    /\ clears = 0
    /\ sweeps = 0
    /\ fr = IdleFetch
    /\ frLog = NoLog
    /\ call = NoCall

\* the one request of slot r arrives
FirstGetEvents(r, month, year) ==
    /\ req[r].pc = "idle"
    /\ GetEvents(r, month, year)

NextTwo ==
    \/ \E r \in DOMAIN req : FirstGetEvents(r, Param(<<"0", "2">>), ValidYear)
    \/ \E r \in DOMAIN req, allEvents \in PrimaryBodies :
           PrimaryResolve(r, allEvents)
    \/ \E r \in DOMAIN req : PrimaryReject(r, HttpError(401, ""))
    \/ \E r \in DOMAIN req, i \in 1..MaxCatalog, ticketClasses \in TicketBodies :
           TicketResolve(r, i, ticketClasses)
    \/ \E r \in DOMAIN req, i \in 1..MaxCatalog :
           TicketReject(r, i, HttpError(404, ""))
    \/ \E t \in Instants : Tick(t)

SpecTwo == InitTwo /\ [][NextTwo]_vars

(***************************************************************************)
(* SpecCalls: one call of a function of the program on its own, on         *)
(* arguments drawn from small sets.                                        *)
(***************************************************************************)
\* sequences over S of length at most n
RECURSIVE SeqsUpTo(_, _)
SeqsUpTo(S, n) ==
    IF n = 0 THEN {<<>>}
    ELSE LET shorter == SeqsUpTo(S, n - 1)
         IN  shorter \cup {Append(q, x) : q \in shorter, x \in S}

\* the months and years asked for in SpecCalls
CallMonths ==
    {Param(<<"1">>), Param(<<"0", "2">>), Param(<<"3">>), Param(<<"1", "2">>)}

CallYears == {Param(<<"2", "0", "2", "3">>), Param(<<"2", "0", "2", "4">>)}

\* the events of the upstream in SpecCalls: those of EventPool, the last hour
\* of 2023 and the fourth hour of 2024
CallEvents ==
    {EventPool[i] : i \in 1..Len(EventPool)}
        \cup {Event("e6", 2023, 12, 31, 23), Event("e7", 2024, 1, 1, 3)}

InitCalls ==
    /\ now = 0
    /\ env = [token |-> TRUE, tz |-> 0]
    /\ cache = EmptyMap
    /\ req = [r \in Requests |-> NewRequest]
    /\ cleared = 0
    /\ stored = EmptyMap
    /\ clearedKeys = {}
    /\ clears = 0
    /\ sweeps = 0
    /\ fr = IdleFetch
    /\ frLog = NoLog
    /\ call = NoCall

\* the handler on a miss, from the query to the filtered events: allEvents is
\* the answer of the primary query, tz the zone of the process
CallFilter(month, year, allEvents, tz) ==
    LET q == HandleRequest(month, year, EmptyMap, TRUE, 0)
        p == PrimaryReturned(q, FetchOnResponse(q.primary), allEvents, tz)
    IN  /\ call = NoCall
        /\ call' = [fn |-> "filter", monthNum |-> q.monthNum,
                    yearNum |-> q.yearNum, allEvents |-> allEvents, tz |-> tz,
                    events |-> p.events]
        /\ UNCHANGED <<now, env, cache, req, cleared, stored, clearedKeys,
                       clears, sweeps, fr, frLog>>

\* the handler's startDate and endDate for a validated year and month
CallDateRange(yearNum, monthNum) ==
    /\ call = NoCall
    /\ call' = [fn |-> "dates", yearNum |-> yearNum, monthNum |-> monthNum,
                range |-> DateRange(yearNum, monthNum)]
    /\ UNCHANGED <<now, env, cache, req, cleared, stored, clearedKeys, clears,
                   sweeps, fr, frLog>>

\* the months 1..12 as a client may write them: plain, padded, and followed
\* by a letter that parseInt leaves out
KeyMonths ==
    UNION {{Param(NumToString(m)), Param(PadStart2(NumToString(m))),
            Param(NumToString(m) \o <<"x">>)} : m \in MIN_MONTH..MAX_MONTH}

KeyYears == {Param(NumToString(y)) : y \in {2000, 2001, 2011, 2012, 2100}}

\* the handler from the query to its cache key
CallKey(month, year) ==
    LET q == HandleRequest(month, year, EmptyMap, TRUE, 0)
    IN  /\ call = NoCall
        /\ q.looked
        /\ call' = [fn |-> "key", month |-> month, year |-> year,
                    monthNum |-> q.monthNum, yearNum |-> q.yearNum,
                    key |-> q.key]
        /\ UNCHANGED <<now, env, cache, req, cleared, stored, clearedKeys,
                       clears, sweeps, fr, frLog>>

\* ticket classes the secondary query can answer: with and without a
\* display amount, free with a cost, sold out with tickets left
FreeWithCost ==
    TicketClass(FALSE, "AVAILABLE", TRUE, "MXN",
                <<"$", "5", "0", ".", "0", "0">>, 5000, 4, 1)

ValueOnly == TicketClass(FALSE, "AVAILABLE", FALSE, "MXN", <<>>, 5000, 6, 6)

SoldOutTicket ==
    TicketClass(FALSE, "SOLD_OUT", FALSE, "MXN",
                <<"$", "1", "0", ".", "0", "0">>, 1000, 3, 1)

CallTickets ==
    {PaidTicket, HiddenFreeTicket, FreeWithCost, ValueOnly, SoldOutTicket}

\* getEventTicketInfo once its fetch returned ticketClasses
CallTicketInfo(ticketClasses) ==
    /\ call = NoCall
    /\ call' = [fn |-> "tickets", ticketClasses |-> ticketClasses,
                info |-> TicketInfo(ticketClasses)]
    /\ UNCHANGED <<now, env, cache, req, cleared, stored, clearedKeys,
                   clears, sweeps, fr, frLog>>

NextCalls ==
    \/ \E month \in CallMonths, year \in CallYears,
          allEvents \in SeqsUpTo(CallEvents, MaxListed), tz \in TimeZones :
           CallFilter(month, year, allEvents, tz)
    \/ \E yearNum \in MIN_YEAR..MAX_YEAR, monthNum \in MIN_MONTH..MAX_MONTH :
           CallDateRange(yearNum, monthNum)
    \/ \E month \in KeyMonths, year \in KeyYears : CallKey(month, year)
    \/ \E ticketClasses \in SeqsUpTo(CallTickets, MaxClasses) :
           CallTicketInfo(ticketClasses)

SpecCalls == InitCalls /\ [][NextCalls]_vars

(***************************************************************************)
(* Claims about fetchWithRetry, checked under SpecRetry                    *)
(***************************************************************************)
AllRetryable(errs) ==
    \A k \in 1..Len(errs) :
        \/ errs[k].status \in {502, 503, 504}
        \/ errs[k].code \in {"ECONNABORTED", "ETIMEDOUT"}

\* C4: when every attempt of a call with retries = n >= 1 fails with 502, 503,
\* 504 or a timeout, the call never returns, it waits only between attempts,
\* the k-th wait is delay * 2^(k-1) and attempt k+1 starts no sooner than that
\* after attempt k failed, and the call fails after exactly n attempts with
\* n - 1 waits.
C4_RetryExhaustion ==
    (fr.retries >= 1 /\ AllRetryable(frLog.errs)) =>
        /\ Len(frLog.attemptAt) <= fr.retries
        /\ \A k \in 1..Len(fr.waits) : fr.waits[k] = fr.delay * (2 ^ (k - 1))
        /\ \A k \in 1..(Len(frLog.attemptAt) - 1) :
               frLog.attemptAt[k + 1]
                   >= frLog.failedAt[k] + fr.delay * (2 ^ (k - 1))
        /\ fr.st = "sleeping" =>
               /\ Len(frLog.errs) < fr.retries
               /\ Len(fr.waits) = Len(frLog.errs)
        /\ fr.st = "pending" =>
               /\ Len(fr.waits) = Len(frLog.errs)
               /\ Len(frLog.attemptAt) = Len(frLog.errs) + 1
        /\ Len(frLog.errs) = fr.retries =>
               /\ fr.st = "thrown"
               /\ Len(frLog.attemptAt) = fr.retries
               /\ Len(fr.waits) = fr.retries - 1
        /\ fr.st = "thrown" => Len(frLog.errs) = fr.retries

\* C4 witness: four attempts all failed retryably and the call has failed
C4_Witness ==
    /\ fr.st = "thrown"
    /\ fr.retries = 4
    /\ Len(frLog.errs) = 4
    /\ AllRetryable(frLog.errs)
    /\ fr.waits = <<500, 1000, 2000>>

Fatal4xx(error) == error.status >= 400 /\ error.status <= 499

\* C5: a failure with a 4xx status (401, 429, ...) is the last thing the call
\* does: it is thrown as the call's error on the attempt where it occurred,
\* with no wait after it and no further attempt.
C5_FatalShortCircuit ==
    \A k \in 1..Len(frLog.errs) :
        Fatal4xx(frLog.errs[k]) =>
            /\ k = Len(frLog.errs)
            /\ fr.st = "thrown"
            /\ fr.lastError = frLog.errs[k]
            /\ Len(frLog.attemptAt) = k
            /\ Len(fr.waits) = k - 1

\* C5 witness: a 401 on the first of three attempts ended the call
C5_Witness ==
    /\ fr.retries = 3
    /\ frLog.errs = <<HttpError(401, "")>>
    /\ fr.st = "thrown"
    /\ Len(frLog.attemptAt) = 1
    /\ fr.waits = <<>>

\* C22: when the last of the retries attempts of a call has failed, with
\* whatever error and after whatever errors of the earlier attempts, the call
\* has thrown the error of that attempt, and it has made retries attempts and
\* retries - 1 waits: none after the last failure.
C22_LastErrorPropagates ==
    (fr.retries >= 1 /\ Len(frLog.errs) = fr.retries) =>
        /\ fr.st = "thrown"
        /\ fr.lastError = frLog.errs[fr.retries]
        /\ Len(frLog.attemptAt) = fr.retries
        /\ Len(fr.waits) = fr.retries - 1

\* C22 witness: three attempts failed with 503, a timeout and 502, and the
\* call threw the 502
C22_Witness ==
    /\ fr.retries = 3
    /\ frLog.errs
           = <<HttpError(503, ""), NetError("ETIMEDOUT"), HttpError(502, "")>>
    /\ fr.st = "thrown"
    /\ fr.lastError = HttpError(502, "")

\* neither 502, 503, 504 nor a timeout or connection-abort code
NotRetryable(error) ==
    /\ error.status \notin {502, 503, 504}
    /\ error.code \notin {"ECONNABORTED", "ETIMEDOUT"}

\* C28: a failure that is neither a 502, 503 or 504 nor a timeout (a 500, a
\* 4xx, a connection reset) ends the call on the attempt where it occurs: it
\* is the call's error, no wait and no attempt follows it; so every wait of a
\* call follows a 502, 503, 504 or a timeout.
C28_RetryOnlyTransient ==
    /\ \A k \in 1..Len(frLog.errs) :
           NotRetryable(frLog.errs[k]) =>
               /\ k = Len(frLog.errs)
               /\ fr.st = "thrown"
               /\ fr.lastError = frLog.errs[k]
               /\ Len(frLog.attemptAt) = k
               /\ Len(fr.waits) = k - 1
    /\ \A k \in 1..Len(fr.waits) : ~NotRetryable(frLog.errs[k])

\* C28 witness: of four attempts allowed, the first failed with 503 and was
\* retried, the second failed with 500 and ended the call
C28_Witness ==
    /\ fr.retries = 4
    /\ frLog.errs = <<HttpError(503, ""), HttpError(500, "")>>
    /\ fr.st = "thrown"
    /\ fr.lastError = HttpError(500, "")
    /\ Len(frLog.attemptAt) = 2
    /\ Len(fr.waits) = 1

(***************************************************************************)
(* Claims about the server, checked under Spec                             *)
(***************************************************************************)
\* this step is the arrival of a request in slot r, served up to its answer
\* or its first await
Arrives(r) ==
    /\ req[r].pc \in {"idle", "done", "failed"}
    /\ req'[r] # req[r]

\* this step is the end of the miss path of the request in slot r
Completes(r) ==
    /\ req[r].pc \in {"primary", "enrich"}
    /\ req'[r].pc = "done"

\* the request made no upstream call
NoUpstreamCall(q) == Attempts(q.primary) = 0 /\ q.tickets = <<>>

\* C1: a request is answered from the cache only when the entry of its key
\* has now < expiry; when the Map holds an entry of its key with
\* now >= expiry, swept or not, the request goes on as on a miss: no answer
\* from the cache, the credential check and then the primary query.
C1_NoStaleHit ==
    [][\A r \in DOMAIN req :
          Arrives(r) =>
              /\ req'[r].resp.xcache = "HIT" =>
                     /\ req'[r].key \in DOMAIN cache
                     /\ now < cache[req'[r].key].expiry
              /\ \A k \in DOMAIN cache :
                     (req'[r].looked /\ req'[r].key = k /\ now >= cache[k].expiry)
                         => /\ req'[r].resp.xcache # "HIT"
                            /\ ~req'[r].resp.hasList
                            /\ IF env.token THEN req'[r].pc = "primary"
                               ELSE req'[r].pc = "failed"]_vars

\* C1 witness: a request went to the primary query although the Map holds an
\* entry of its key, at the very instant that entry expires
C1_Witness ==
    \E r \in DOMAIN req :
        /\ req[r].pc = "primary"
        /\ req[r].key \in DOMAIN cache
        /\ cache[req[r].key].expiry = now

\* C2: when a list was stored for a year and month, no clear ran since, and a
\* request for that year and month arrives less than CACHE_TTL after the
\* store, the request is answered at once with exactly the stored list,
\* marked X-Cache: HIT, having made no upstream call.
C2_HitWithinTTL ==
    [][\A r \in DOMAIN req :
          (/\ Arrives(r)
           /\ req'[r].looked
           /\ <<req'[r].yearNum, req'[r].monthNum>> \in DOMAIN stored
           /\ now < stored[<<req'[r].yearNum, req'[r].monthNum>>].at + CACHE_TTL)
              => /\ req'[r].pc = "done"
                 /\ req'[r].resp.status = 200
                 /\ req'[r].resp.xcache = "HIT"
                 /\ req'[r].resp.hasList
                 /\ req'[r].resp.list
                        = stored[<<req'[r].yearNum, req'[r].monthNum>>].data
                 /\ NoUpstreamCall(req'[r])]_vars

\* C2 witness: one millisecond before its expiry a stored list of two events
\* was served from the cache
C2_Witness ==
    \E r \in DOMAIN req :
        /\ req[r].resp.xcache = "HIT"
        /\ Len(req[r].resp.list) = 2
        /\ now = CACHE_TTL - 1
        /\ stored[<<req[r].yearNum, req[r].monthNum>>].at = 0
        /\ clears = 0

\* C3: when the list stored for a year and month is CACHE_TTL old or older, a
\* request for that year and month starts a primary query and is not
\* answered from the cache (a list was stored, so the credential, fixed for
\* the life of the process, is configured); and a request that
\* ends its miss path answers X-Cache: MISS and leaves under its key exactly
\* the list it answers with expiry now + CACHE_TTL, every other entry
\* untouched.
C3_RefetchAfterTTL ==
    [][\A r \in DOMAIN req :
          /\ (/\ Arrives(r)
              /\ req'[r].looked
              /\ <<req'[r].yearNum, req'[r].monthNum>> \in DOMAIN stored
              /\ now >= stored[<<req'[r].yearNum, req'[r].monthNum>>].at
                            + CACHE_TTL)
                 => /\ req'[r].pc = "primary"
                    /\ req'[r].primary.st = "pending"
                    /\ Attempts(req'[r].primary) = 1
                    /\ req'[r].resp.xcache # "HIT"
          /\ Completes(r)
                 => /\ req'[r].resp.xcache = "MISS"
                    /\ req'[r].resp.hasList
                    /\ DOMAIN cache' = DOMAIN cache \cup {req'[r].key}
                    /\ cache'[req'[r].key].data = req'[r].resp.list
                    /\ cache'[req'[r].key].expiry = now + CACHE_TTL
                    /\ \A k \in DOMAIN cache \ {req'[r].key} :
                           cache'[k] = cache[k]]_vars

\* C3 witness: a request ended its miss path at the instant the older entry
\* of its key expired and the entry now holds the new list and the new expiry
C3_Witness ==
    \E r \in DOMAIN req :
        /\ req[r].pc = "done"
        /\ req[r].resp.xcache = "MISS"
        /\ now = CACHE_TTL
        /\ sweeps = 0
        /\ clears = 0
        /\ stored[<<req[r].yearNum, req[r].monthNum>>].at = CACHE_TTL
        /\ req[r].had
        /\ cache[req[r].key].expiry = CACHE_TTL + CACHE_TTL
        /\ cache[req[r].key].data = req[r].resp.list
        /\ Len(req[r].resp.list) = 1

\* the fields of an event
EventFields == {"id", "hasStart", "y", "mo", "d", "h"}

\* C6: once the primary query has returned, the request never ends in an
\* error whatever the ticket fetches do (return, fail at once, fail after the
\* retry): it stays in the enrichment until it answers a list, and that list
\* has one element per filtered event, in the order of the filtered events,
\* each the event itself with one more field, ticket_info.
C6_EnrichmentNeverFails ==
    [][\A r \in DOMAIN req :
          /\ req[r].pc = "enrich" => req'[r].pc \in {"enrich", "done"}
          /\ Completes(r) =>
                 /\ req'[r].resp.status = 200
                 /\ Len(req'[r].resp.list) = Len(req'[r].events)
                 /\ Len(req'[r].tickets) = Len(req'[r].events)
                 /\ \A i \in 1..Len(req'[r].events) :
                        /\ DOMAIN req'[r].resp.list[i]
                               = EventFields \cup {"ticket_info"}
                        /\ \A field \in EventFields :
                               req'[r].resp.list[i][field]
                                   = req'[r].events[i][field]]_vars

\* C6 witness: a list of two events was answered although the ticket fetch of
\* the first event failed
C6_Witness ==
    \E r \in DOMAIN req :
        /\ req[r].pc = "done"
        /\ req[r].resp.xcache = "MISS"
        /\ Len(req[r].resp.list) = 2
        /\ req[r].resp.list[1].id = "e1"
        /\ req[r].resp.list[2].id = "e4"
        /\ req[r].tickets[1].f.st = "thrown"
        /\ req[r].tickets[2].f.st = "returned"

\* C7: in an answered list, the events whose ticket fetch failed, and only
\* they, carry base_price, available_tickets, total_tickets and is_free null,
\* currency MXN and the marker 'No disponible'; every other event carries the
\* ticket_info computed from its own ticket classes alone, every field of it
\* set and no marker.
C7_EnrichmentIsolation ==
    \A r \in DOMAIN req :
        (req[r].pc = "done" /\ req[r].resp.xcache = "MISS") =>
            \A i \in 1..Len(req[r].resp.list) :
                LET info == req[r].resp.list[i].ticket_info
                IN  IF req[r].tickets[i].f.st = "thrown"
                    THEN info = [base_price |-> Null, currency |-> "MXN",
                                 available_tickets |-> Null,
                                 total_tickets |-> Null, is_free |-> Null,
                                 error |-> Some("No disponible")]
                    ELSE /\ req[r].tickets[i].f.st = "returned"
                         /\ info = TicketInfo(req[r].tickets[i].classes)
                         /\ info.base_price # Null
                         /\ info.available_tickets # Null
                         /\ info.total_tickets # Null
                         /\ info.is_free # Null
                         /\ info.error = Null

\* C7 witness: of two events the second lost its ticket fetch and the first
\* carries the price of its cheapest visible ticket class
C7_Witness ==
    \E r \in DOMAIN req :
        /\ req[r].pc = "done"
        /\ req[r].resp.xcache = "MISS"
        /\ Len(req[r].resp.list) = 2
        /\ req[r].tickets[1].f.st = "returned"
        /\ req[r].tickets[2].f.st = "thrown"
        /\ req[r].resp.list[1].ticket_info.base_price = Some(Num(16217))
        /\ req[r].resp.list[2].ticket_info.base_price = Null

\* C8: a clear answers the number of entries the Map held, fresh or expired,
\* and leaves the Map empty; and a request whose key the last clear removed
\* (and no request stored since) is not answered from the cache.
C8_ClearCache ==
    [][/\ clears' # clears =>
              /\ cleared' = Cardinality(DOMAIN cache)
              /\ DOMAIN cache' = {}
       /\ \A r \in DOMAIN req :
              (Arrives(r) /\ req'[r].looked /\ req'[r].key \in clearedKeys)
                  => /\ req'[r].resp.xcache # "HIT"
                     /\ ~req'[r].resp.hasList
                     /\ IF env.token THEN req'[r].pc = "primary"
                        ELSE req'[r].pc = "failed"]_vars

\* C8 witness: a clear removed two entries, both still fresh, and a request
\* for one of their keys went to the primary query
C8_Witness ==
    \E r \in DOMAIN req :
        /\ clears = 1
        /\ cleared = 2
        /\ now < CACHE_TTL
        /\ cache = EmptyMap
        /\ req[r].pc = "primary"
        /\ req[r].key \in clearedKeys

\* month or year missing, empty, not parsed to a number or out of range
InvalidQuery(month, year) ==
    \/ ~month.given \/ ~year.given
    \/ month.text = <<>> \/ year.text = <<>>
    \/ ParseInt(month.text).nan \/ ParseInt(year.text).nan
    \/ ParseInt(month.text).val \notin 1..12
    \/ ParseInt(year.text).val \notin 2000..2100

\* C9: a request whose month or year is missing, does not parse to a number
\* or parses outside 1..12 and 2000..2100 is answered 400 at once: the cache
\* is not looked up, no upstream call is made, no list is answered and the
\* Map is left as it was.
C9_ValidationFailure ==
    [][\A r \in DOMAIN req :
          (Arrives(r) /\ InvalidQuery(req'[r].month, req'[r].year)) =>
              /\ req'[r].pc = "failed"
              /\ req'[r].resp.status = 400
              /\ req'[r].resp.error \in {"missing", "month", "year"}
              /\ ~req'[r].resp.hasList
              /\ ~req'[r].looked
              /\ NoUpstreamCall(req'[r])
              /\ cache' = cache]_vars

\* C9 witness: month 13 was refused while the Map held an entry
C9_Witness ==
    \E r \in DOMAIN req :
        /\ req[r].pc = "failed"
        /\ req[r].resp.status = 400
        /\ req[r].month = Param(<<"1", "3">>)
        /\ ~req[r].looked
        /\ cache # EmptyMap

\* C10: when the primary query has failed, at once or after its last attempt,
\* the request has ended with an error answer of the class of the failure
\* (401 auth, 429 rate limit, 502/503/504 unavailable, another status as it
\* is, a timeout 504, anything else 500), without a list and without any
\* ticket fetch.
C10_PrimaryFailure ==
    \A r \in DOMAIN req :
        req[r].primary.st = "thrown" =>
            LET e    == req[r].primary.lastError
                resp == req[r].resp
            IN  /\ req[r].pc = "failed"
                /\ ~resp.hasList
                /\ resp.list = <<>>
                /\ resp.xcache = ""
                /\ req[r].tickets = <<>>
                /\ req[r].events = <<>>
                /\ resp.status \in 400..599
                /\ e.status = 401 => resp.status = 401 /\ resp.error = "auth"
                /\ e.status = 429 =>
                       resp.status = 429 /\ resp.error = "rate_limit"
                /\ e.status \in {502, 503, 504} =>
                       resp.status = 503 /\ resp.error = "unavailable"
                /\ e.status \in {404} =>
                       resp.status = e.status /\ resp.error = "api"
                /\ e.code \in {"ECONNABORTED", "ETIMEDOUT"} =>
                       resp.status = 504 /\ resp.error = "timeout"
                /\ e.code = "ECONNRESET" =>
                       resp.status = 500 /\ resp.error = "connection"

\* C10 witness: the third attempt of the primary query failed with 503 and
\* the request was answered 503
C10_Witness ==
    \E r \in DOMAIN req :
        /\ req[r].pc = "failed"
        /\ req[r].primary.st = "thrown"
        /\ Attempts(req[r].primary) = 3
        /\ req[r].primary.lastError = HttpError(503, "")
        /\ req[r].resp.status = 503

\* C15: on a server without credential the Map stays empty, so every request
\* with valid parameters misses, and it is answered an error whose details
\* name the missing credential, with no list, no upstream call and no entry
\* stored.
C15_ConfigFailure ==
    ~env.token =>
        /\ cache = EmptyMap
        /\ \A r \in DOMAIN req :
               req[r].looked =>
                   /\ req[r].pc = "failed"
                   /\ req[r].resp.status = 500
                   /\ req[r].resp.details
                          = "EVENTBRITE_TOKEN no está configurado"
                   /\ ~req[r].resp.hasList
                   /\ NoUpstreamCall(req[r])

\* C15 witness: a request for March 2024 failed for want of the credential
C15_Witness ==
    \E r \in DOMAIN req :
        /\ ~env.token
        /\ req[r].looked
        /\ req[r].monthNum = 3
        /\ req[r].pc = "failed"
        /\ req[r].resp.status = 500

\* C18: a run of the sweep leaves no entry whose expiry is at or before the
\* time of the run, an entry whose expiry equals that time included, and
\* leaves every entry of later expiry as it was.
C18_SweepRemovesExpired ==
    [][sweeps' # sweeps =>
          /\ \A k \in DOMAIN cache' : cache'[k].expiry > now
          /\ \A k \in DOMAIN cache :
                 cache[k].expiry > now =>
                     k \in DOMAIN cache' /\ cache'[k] = cache[k]]_vars

\* the Map of the run in which cleanExpiredCache never ran: the last list
\* stored for each year and month since the last clear, under its key
SweepFreeCache ==
    [k \in {CacheKey(ym[1], ym[2]) : ym \in DOMAIN stored} |->
        LET ym == CHOOSE p \in DOMAIN stored : CacheKey(p[1], p[2]) = k
        IN  CacheEntry(stored[ym].data, stored[ym].at)]

\* C19: sweeps interleaved with requests in any order, every request that
\* reaches the lookup is decided (hit or miss) and answered exactly as the
\* handler decides and answers it on the Map that was never swept.
C19_SweepInvisible ==
    [][\A r \in DOMAIN req :
          (Arrives(r) /\ req'[r].looked) =>
              LET q == HandleRequest(req'[r].month, req'[r].year,
                                     SweepFreeCache, env.token, now)
              IN  req'[r] = [q EXCEPT !.had = req'[r].had]]_vars

\* C19 witness: after the sweep deleted the expired entry of its key, a
\* request for that key missed and started its primary query
C19_Witness ==
    \E r \in DOMAIN req :
        /\ sweeps = 1
        /\ clears = 0
        /\ req[r].pc = "primary"
        /\ <<req[r].yearNum, req[r].monthNum>> \in DOMAIN stored
        /\ req[r].key \notin DOMAIN cache
        /\ ~req[r].had

\* C20: a request fails either at its arrival, on its parameters before any
\* lookup or, after a miss, for want of the credential before any upstream
\* call, or when its primary fetch throws; after a hit it is done at once;
\* once the primary fetch returned it moves through the ticket fetches to the
\* store and its answer and never fails, and it does reach them.
C20_RequestOrder ==
    /\ [][\A r \in Requests :
              /\ Arrives(r) =>
                     \/ /\ req'[r].pc = "failed"
                        /\ ~req'[r].looked
                        /\ req'[r].resp.status = 400
                     \/ /\ req'[r].pc = "done"
                        /\ req'[r].looked
                        /\ req'[r].resp.xcache = "HIT"
                     \/ /\ req'[r].pc = "failed"
                        /\ req'[r].looked
                        /\ ~env.token
                        /\ NoUpstreamCall(req'[r])
                     \/ /\ req'[r].pc = "primary"
                        /\ req'[r].looked
                        /\ Attempts(req'[r].primary) = 1
              /\ req[r].pc = "primary" =>
                     /\ req'[r].pc \in {"primary", "failed", "enrich", "done"}
                     /\ req'[r].pc = "failed" => req'[r].primary.st = "thrown"
                     /\ req'[r].pc \in {"enrich", "done"}
                            => req'[r].primary.st = "returned"
                     /\ req'[r].pc = "enrich" => req'[r].tickets # <<>>
              /\ req[r].pc = "enrich" => req'[r].pc \in {"enrich", "done"}
              /\ Completes(r) =>
                     /\ req'[r].resp.status = 200
                     /\ req'[r].resp.xcache = "MISS"
                     /\ req'[r].key \in DOMAIN cache'
                     /\ cache'[req'[r].key].data = req'[r].resp.list]_vars
    /\ \A r \in Requests : (req[r].pc = "enrich") ~> (req[r].pc = "done")

\* C20 witness: a request stored and answered its list after its primary
\* fetch returned on a retry and a ticket fetch failed for good
C20_Witness ==
    \E r \in Requests :
        /\ req[r].pc = "done"
        /\ req[r].resp.xcache = "MISS"
        /\ Attempts(req[r].primary) > 1
        /\ \E i \in 1..Len(req[r].tickets) : req[r].tickets[i].f.st = "thrown"
        /\ req[r].key \in DOMAIN cache

C25_FailureLeavesCache ==
    [][\A r \in DOMAIN req :
          (req'[r] # req[r] /\ req'[r].pc \in {"failed", "primary"}) =>
              /\ cache' = cache
              /\ req'[r].pc = "failed" =>
                     ~req'[r].resp.hasList /\ req'[r].resp.xcache = ""]_vars

\* C25 witness: the primary fetch of a request failed while the Map holds
\* the expired entry of its key
C25_Witness ==
    \E r \in DOMAIN req :
        /\ req[r].pc = "failed"
        /\ req[r].primary.st = "thrown"
        /\ req[r].had
        /\ req[r].key \in DOMAIN cache
        /\ cache[req[r].key].expiry <= now

\* some event of the list carries the ticket_info of a failed fetch
Degraded(list) ==
    \E i \in 1..Len(list) : list[i].ticket_info = UnavailableInfo

\* C26: a request whose ticket fetch failed for some event stores its list,
\* degraded ticket_info included, under its key with expiry now + CACHE_TTL;
\* and while such a list is the one stored for a year and month, less than
\* CACHE_TTL old and no clear since, a request for that year and month is
\* answered that same list from the cache with no upstream call.
C26_DegradedIsCached ==
    [][\A r \in DOMAIN req :
          /\ (/\ Completes(r)
              /\ \E i \in 1..Len(req'[r].tickets) :
                     req'[r].tickets[i].f.st = "thrown")
                 => /\ Degraded(req'[r].resp.list)
                    /\ req'[r].key \in DOMAIN cache'
                    /\ cache'[req'[r].key].data = req'[r].resp.list
                    /\ cache'[req'[r].key].expiry = now + CACHE_TTL
          /\ (/\ Arrives(r)
              /\ req'[r].looked
              /\ <<req'[r].yearNum, req'[r].monthNum>> \in DOMAIN stored
              /\ Degraded(stored[<<req'[r].yearNum, req'[r].monthNum>>].data)
              /\ now < stored[<<req'[r].yearNum, req'[r].monthNum>>].at
                           + CACHE_TTL)
                 => /\ req'[r].resp.xcache = "HIT"
                    /\ req'[r].resp.list
                           = stored[<<req'[r].yearNum, req'[r].monthNum>>].data
                    /\ Degraded(req'[r].resp.list)
                    /\ NoUpstreamCall(req'[r])]_vars

\* C26 witness: one millisecond before its expiry a list with a degraded
\* ticket_info was served from the cache
C26_Witness ==
    \E r \in DOMAIN req :
        /\ req[r].resp.xcache = "HIT"
        /\ Degraded(req[r].resp.list)
        /\ req[r].tickets = <<>>
        /\ now = CACHE_TTL - 1
        /\ clears = 0

\* the keys of the months 1..12 of the years 2000..2100
ValidKeys == {CacheKey(y, m) : y \in 2000..2100, m \in 1..12}

\* C27: in every reachable state every entry of the Map is under the key of
\* a month in 1..12 and a year in 2000..2100 and has an expiry of at most
\* now + CACHE_TTL; there are 12 * 101 such keys, so the Map never holds more
\* entries than that.
C27_CacheBounded ==
    /\ \A k \in DOMAIN cache :
           /\ k \in ValidKeys
           /\ cache[k].expiry <= now + CACHE_TTL
    /\ Cardinality(ValidKeys) = 12 * 101
    /\ CacheSize(cache) <= 12 * 101

\* C27 witness: the Map holds the entries of two months, one stored at this
\* instant, after requests with a month or a year out of range were rejected
C27_Witness ==
    /\ CacheSize(cache) = 2
    /\ \E k \in DOMAIN cache : cache[k].expiry = now + CACHE_TTL
    /\ \E k \in DOMAIN cache : cache[k].expiry < now + CACHE_TTL

(***************************************************************************)
(* Claims about single functions, checked under SpecCalls                  *)
(***************************************************************************)
\* C11: on a miss the filtered events are exactly the events of the upstream
\* answer, in their order, that have a start whose UTC year and UTC month are
\* the year and month asked for; events without start are left out and no
\* other event is.
C11_UtcMonthFilter ==
    call.fn = "filter" =>
        call.events
            = SelectSeq(call.allEvents,
                        LAMBDA e : /\ e.hasStart
                                   /\ e.y = call.yearNum
                                   /\ e.mo = call.monthNum)

\* n in 0..99 and n in 0..9999 written with two and with four digits
TwoDigits(n) == <<DigitChars[(n \div 10) + 1], DigitChars[(n % 10) + 1]>>

FourDigits(n) == TwoDigits(n \div 100) \o TwoDigits(n % 100)

\* the last day of month m of year y by the calendar
CalendarLastDay(y, m) ==
    IF m = 2
    THEN IF (y % 4 = 0 /\ y % 100 # 0) \/ y % 400 = 0 THEN 29 ELSE 28
    ELSE IF m \in {4, 6, 9, 11} THEN 30 ELSE 31

\* C12: for every month in 1..12 and year in 2000..2100 the start date is
\* day 01 of that month at 00:00:00Z and the end date is the last calendar
\* day of that month of that year at 23:59:59Z: 28 or 29 in February by the
\* leap year rule, 30 or 31 otherwise, December ending on the 31st of the
\* same year.
C12_DateRange ==
    call.fn = "dates" =>
        LET head == FourDigits(call.yearNum) \o <<"-">>
                        \o TwoDigits(call.monthNum) \o <<"-">>
        IN  /\ call.range.startDate
                   = head \o <<"0", "1", "T", "0", "0", ":", "0", "0", ":",
                               "0", "0", "Z">>
            /\ call.range.endDate
                   = head \o TwoDigits(CalendarLastDay(call.yearNum,
                                                       call.monthNum))
                          \o <<"T", "2", "3", ":", "5", "9", ":", "5", "9", "Z">>

\* C12 witness: February 2100, not a leap year, ends on the 28th
C12_Witness ==
    /\ call.fn = "dates"
    /\ call.yearNum = 2100
    /\ call.monthNum = 2
    /\ call.range.endDate
           = <<"2", "1", "0", "0", "-", "0", "2", "-", "2", "8",
               "T", "2", "3", ":", "5", "9", ":", "5", "9", "Z">>

\* C13: the key of a request is the key of its parsed year and month,
\* however the client wrote them, and of all the years 2000..2100 and months
\* 1..12 only that year and month have that key.
C13_CacheKey ==
    call.fn = "key" =>
        /\ call.monthNum \in 1..12
        /\ call.yearNum \in 2000..2100
        /\ \A y \in 2000..2100, m \in 1..12 :
               (CacheKey(y, m) = call.key)
                   <=> (y = call.yearNum /\ m = call.monthNum)

\* C13 witness: month "02" of 2011 has the key of month 2 of 2011
C13_Witness ==
    /\ call.fn = "key"
    /\ call.month = Param(<<"0", "2">>)
    /\ call.yearNum = 2011
    /\ call.key = <<"e", "v", "e", "n", "t", "s", "_", "2", "0", "1", "1",
                    "_", "2">>

(***************************************************************************)
(* Claims about two requests at a time, checked under SpecTwo              *)
(***************************************************************************)
\* C14: a request that finds no entry under its key, the other request
\* still on its way or not, is not answered from the cache and makes its own
\* primary query; and when both requests have answered a list they built for
\* the same key, the Map holds one entry, under that key, with the list of
\* the request that stored last and the expiry that request gave it.
C14_LastWriterWins ==
    /\ \A r \in DOMAIN req :
           (req[r].looked /\ ~req[r].had) =>
               /\ req[r].resp.xcache # "HIT"
               /\ Attempts(req[r].primary) >= 1
    /\ (\A r \in DOMAIN req :
            req[r].pc = "done" /\ req[r].resp.xcache = "MISS"
                /\ req[r].key = req["r1"].key) =>
           LET last == stored[<<req["r1"].yearNum, req["r1"].monthNum>>]
           IN  /\ DOMAIN cache = {req["r1"].key}
               /\ cache[req["r1"].key].data = req[last.by].resp.list
               /\ cache[req["r1"].key].data = last.data
               /\ cache[req["r1"].key].expiry = last.at + CACHE_TTL

\* C14 witness: both requests found no entry and built different lists; the
\* second stored later than the first and the Map holds its list and expiry
C14_Witness ==
    /\ \A r \in DOMAIN req :
           req[r].pc = "done" /\ req[r].resp.xcache = "MISS" /\ ~req[r].had
    /\ req["r1"].key = req["r2"].key
    /\ Len(req["r1"].resp.list) = 2
    /\ Len(req["r2"].resp.list) = 1
    /\ stored[<<2024, 2>>].by = "r2"
    /\ now = CACHE_TTL - 1
    /\ cache[req["r2"].key].data = req["r2"].resp.list
    /\ cache[req["r2"].key].expiry = now + CACHE_TTL


\* the least of a non-empty set of integers
MinOf(S) == CHOOSE m \in S : \A n \in S : m <= n

\* the prices, in hundredths, that the classes of ts resolve to
ResolvedPrices(ts) == {BasePrice(ts[i]).c : i \in 1..Len(ts)}

\* C16: for a non-empty list of ticket classes the base price is the least
\* resolved price of the classes the price is taken from (0 for a class
\* flagged free, else the display amount, else value / 100), and is_free
\* says that this price is 0 or the cheapest class is flagged free.
C16_BasePriceIsMinimum ==
    (call.fn = "tickets" /\ Len(call.ticketClasses) > 0) =>
        LET chosen   == TicketsForPrice(call.ticketClasses)
            minimum  == MinOf(ResolvedPrices(chosen))
            cheapest == SortByPrice(chosen)[1]
        IN  /\ call.info.base_price = Some(Num(minimum))
            /\ call.info.is_free = Some(minimum = 0 \/ cheapest.free)

\* C17: for a non-empty list of ticket classes the available count is the
\* sum of max(0, total - sold) over the classes on sale whenever there is
\* one, and is taken over all classes only when none is on sale; the total
\* count is the sum of quantity_total over all classes.
C17_AvailableCount ==
    (call.fn = "tickets" /\ Len(call.ticketClasses) > 0) =>
        LET onSale == AvailableTickets(call.ticketClasses)
        IN  /\ call.info.available_tickets
                   = Some(IF Len(onSale) > 0 THEN SumRemaining(onSale)
                          ELSE SumRemaining(call.ticketClasses))
            /\ call.info.total_tickets = Some(SumTotal(call.ticketClasses))

(***************************************************************************)
(* Claims about the ticket fetches of a request, checked under SpecLive    *)
(***************************************************************************)
\* the tickets of request q other than the i-th are as in request p
OthersUnchanged(p, q, i) ==
    /\ Len(q.tickets) = Len(p.tickets)
    /\ \A j \in 1..Len(p.tickets) : j # i => q.tickets[j] = p.tickets[j]

\* C21: when the primary fetch returns, the ticket fetch of every filtered
\* event is started in that same step; a step of one event's fetch (answer,
\* failure, backoff, retry) leaves the fetches of the other events as they
\* are; while a fetch is unsettled nothing is stored or answered; and the
\* store and the answer come with every event's ticket_info settled.
C21_IndependentEnrichment ==
    [][\A r \in Requests :
          /\ (req[r].pc = "primary" /\ req'[r].pc = "enrich") =>
                 /\ Len(req'[r].tickets) = Len(req'[r].events)
                 /\ \A i \in 1..Len(req'[r].tickets) :
                        /\ req'[r].tickets[i].f.st = "pending"
                        /\ Attempts(req'[r].tickets[i].f) = 1
          /\ (req[r].pc = "enrich" /\ req'[r] # req[r]) =>
                 \E i \in 1..Len(req[r].tickets) :
                     /\ ~req[r].tickets[i].settled
                     /\ OthersUnchanged(req[r], req'[r], i)
          /\ (req[r].pc = "enrich" /\ req'[r].pc = "enrich") =>
                 /\ cache' = cache
                 /\ ~req'[r].resp.hasList
                 /\ \E i \in 1..Len(req'[r].tickets) :
                        ~req'[r].tickets[i].settled
          /\ Completes(r) =>
                 /\ \A i \in 1..Len(req'[r].tickets) :
                        req'[r].tickets[i].settled
                 /\ Len(req'[r].resp.list) = Len(req'[r].tickets)]_vars

\* C21 witness: a request answered two events, the first with the degraded
\* ticket_info of a fetch that failed, the second with the
\* ticket_info of a fetch that was answered at its first attempt
C21_Witness ==
    \E r \in Requests :
        /\ req[r].pc = "done"
        /\ Len(req[r].tickets) = 2
        /\ req[r].tickets[1].f.st = "thrown"
        /\ req[r].tickets[2].f.st = "returned"
        /\ req[r].resp.list[1].ticket_info = UnavailableInfo
        /\ req[r].resp.list[2].ticket_info # UnavailableInfo

(***************************************************************************)
(* Claims about termination, checked under SpecTerm                        *)
(***************************************************************************)
\* the request in slot r awaits its primary fetch or its ticket fetches
Awaiting(r) == req[r].pc \in {"primary", "enrich"}

\* the request in slot r has its answer
Answered(r) == req[r].pc \in {"done", "failed"}

\* C23: a request awaiting upstream ends in an answer, a list or an error of
\* one of the kinds of the catch block; the attempt a primary fetch is at is
\* never past the third and the attempt an event's ticket fetch is at never
\* past the second; a fetch that has ended makes no further attempt; and
\* there is one ticket fetch per filtered event.
C23_Termination ==
    /\ [](\A r \in Requests :
              /\ Attempts(req[r].primary) <= 3
              /\ req[r].primary.st \in {"pending", "sleeping"}
                     => req[r].primary.i + 1 <= 3
              /\ Len(req[r].tickets) = Len(req[r].events)
              /\ \A i \in 1..Len(req[r].tickets) :
                     /\ Attempts(req[r].tickets[i].f) <= 2
                     /\ req[r].tickets[i].f.st \in {"pending", "sleeping"}
                            => req[r].tickets[i].f.i + 1 <= 2
              /\ req[r].pc = "failed" =>
                     /\ req[r].resp.status >= 400
                     /\ req[r].resp.error # ""
                     /\ ~req[r].resp.hasList
              /\ req[r].pc = "done" =>
                     req[r].resp.status = 200 /\ req[r].resp.hasList)
    /\ [][\A r \in Requests :
              (req[r].pc = "enrich" /\ req'[r].pc \in {"enrich", "done"}) =>
                  /\ req'[r].primary = req[r].primary
                  /\ \A i \in 1..Len(req[r].tickets) :
                         req[r].tickets[i].settled
                             => req'[r].tickets[i] = req[r].tickets[i]]_vars
    /\ \A r \in Requests : Awaiting(r) ~> Answered(r)

\* C23 witness: a request was answered after three primary attempts and two
\* events whose ticket fetches ended, one of them thrown
C23_Witness ==
    \E r \in Requests :
        /\ req[r].pc = "done"
        /\ Attempts(req[r].primary) = 3
        /\ Len(req[r].tickets) = 2
        /\ req[r].tickets[1].f.st = "thrown"
=============================================================================
